---- MODULE Spec2Model ----
(***************************************************************************)
(* A model of serve_and_track.go: the tracking web server.                 *)
(*                                                                         *)
(* The process is modelled at the granularity of its shared accesses: the  *)
(* main goroutine, the goroutine running startServer, and one goroutine    *)
(* per request running serveImage, serveState, the Prometheus handler or   *)
(* the router's not-found handler.  A step of a goroutine is one access to *)
(* the metrics, the state file, the service log or the connection, with    *)
(* the purely local statements that lead to it, so that handlers           *)
(* interleave as goroutines do.  The libraries (net/http, prometheus,      *)
(* os/signal) are modelled by their documented behaviour.                  *)
(***************************************************************************)
EXTENDS Integers, Sequences, FiniteSets, TLC

\* ---------------------------------------------------------------- bounds
\* Number of requests the clients send during one run of the process.
MaxReqs == 2
Reqs == 1..MaxReqs

\* ------------------------------------------------------------- constants
\* The tracking image, serve_and_track.go:44-48.
GIFImage ==
  << 71, 73, 70, 56, 57, 97, 1, 0, 1, 0, 128, 0, 0, 0, 0, 0,
     255, 255, 255, 33, 249, 4, 1, 0, 0, 0, 0, 44, 0, 0, 0, 0,
     1, 0, 1, 0, 0, 2, 1, 68, 0, 59 >>

\* []byte("OK"), serve_and_track.go:178.
OKBody == << 79, 75 >>

\* []byte("Error 503 (Service not available)"), serve_and_track.go:172.
Error503Body ==
  << 69, 114, 114, 111, 114, 32, 53, 48, 51, 32, 40, 83, 101, 114, 118,
     105, 99, 101, 32, 110, 111, 116, 32, 97, 118, 97, 105, 108, 97, 98,
     108, 101, 41 >>

\* The body http.NotFound writes: "404 page not found\n".
NotFoundBody ==
  << 52, 48, 52, 32, 112, 97, 103, 101, 32, 110, 111, 116, 32, 102, 111,
     117, 110, 100, 10 >>

StatusOK == 200
StatusNotFound == 404
StatusServiceUnavailable == 503

NoCache == "no-cache, no-store, must-revalidate"

\* The routes of initServer and any other path the router does not know.
Paths == {"track", "state", "metrics", "other"}
Methods == {"GET", "POST"}

\* The requests the clients send.  The handlers of the two libraries do not
\* look at the method, which is GET for them.
Requests ==
  { k \in Paths \X Methods : k[1] \in {"metrics", "other"} => k[2] = "GET" }

\* Exit code of a process that is still running.
Running == -1

VARIABLES
  req,                        \* the requests: connection, handler position, response
  marker,                     \* whether the file at stateFilePath exists
  GIF,                        \* the package variable GIF
  serveImageRequestDuration,  \* number of observations of the summary
  serveImageRequestsSize,     \* the counter tracking_requests_size_total
  serveImageRequestsCount,    \* the counter vector, by status label
  mainPC,                     \* position of main
  srvPC,                      \* position of the goroutine running startServer
  inShutdown,                 \* srv.Shutdown has been called
  ctx,                        \* the context of stopServer: "none", "live", "expired"
  shutdownErr,                \* what srv.Shutdown returned: "none", "nil", "deadline"
  lastSignal,                 \* the last signal sent: "none", "received", "dropped"
  serviceLog,                 \* the lines written through package log
  exitCode                    \* the exit code of the process, Running before it exits

vars == << req, marker, GIF, serveImageRequestDuration, serveImageRequestsSize,
           serveImageRequestsCount, mainPC, srvPC, inShutdown, ctx, shutdownErr,
           lastSignal, serviceLog, exitCode >>

metrics == << serveImageRequestDuration, serveImageRequestsSize, serveImageRequestsCount >>
lifecycle == << mainPC, srvPC, inShutdown, ctx, shutdownErr, lastSignal, exitCode >>

\* A request nobody has sent yet.
NoRequest ==
  [ path |-> "none", method |-> "none", pc |-> "idle", status |-> 0,
    cacheControl |-> "", contentType |-> "", body |-> << >>,
    written |-> "none", healthy |-> FALSE ]

Init ==
  /\ req = [ r \in Reqs |-> NoRequest ]
  /\ marker \in BOOLEAN
  /\ GIF = GIFImage
  /\ serveImageRequestDuration = 0
  /\ serveImageRequestsSize = 0
  /\ serveImageRequestsCount = [ l \in {"success", "failure"} |-> 0 ]
  /\ mainPC = "initMetrics"
  /\ srvPC = "none"
  /\ inShutdown = FALSE
  /\ ctx = "none"
  /\ shutdownErr = "none"
  /\ lastSignal = "none"
  /\ serviceLog = << >>
  /\ exitCode = Running

Alive == exitCode = Running

\* ------------------------------------------------- the prometheus client
\* A counter that is set to the value instead of being advanced by it.
CounterSet(c, v) == v

\* A counter incremented modulo 2 (a counter that wraps).
CounterIncWraps(c) == (c + 1) % 2

\* Counter.Inc and Counter.Add are atomic read-modify-write operations.
CounterInc(c) == c + 1
CounterAdd(c, v) == c + v
\* Summary.Observe adds one observation.
SummaryObserve(s) == s + 1

\* ------------------------------------------------------ the state file
\* The environment creates or removes the file at stateFilePath.
TouchState ==
  /\ Alive
  /\ marker' = ~marker
  /\ UNCHANGED << req, GIF, metrics, lifecycle, serviceLog >>

\* os.Stat(*stateFilePath) returns no error exactly when the file is there.
StatOK == marker

\* A health check that takes the error of os.Stat for health.
serviceHealthyInverted == ~StatOK

\* serviceHealthy(): err == nil
serviceHealthy == StatOK

\* ---------------------------------------------------------- the router
\* The handler position the router of initServer dispatches a path to.
Route(path) ==
  CASE path = "track"   -> "serveImage"
    [] path = "state"   -> "serveState"
    [] path = "metrics" -> "promhttp"
    [] OTHER            -> "notFound"

\* The server accepts a connection, reads the request and starts its handler.
\* Requests are numbered in the order of their arrival.
Accept(r, path, method) ==
  /\ Alive
  /\ srvPC = "serving"
  /\ req[r].pc = "idle"
  /\ IF r = 1 THEN TRUE ELSE req[r - 1].pc # "idle"
  /\ req' = [ req EXCEPT ![r] = [ NoRequest EXCEPT !.path = path,
                                                  !.method = method,
                                                  !.pc = Route(path) ] ]
  /\ UNCHANGED << marker, GIF, metrics, lifecycle, serviceLog >>

\* ResponseWriter.Write: commits status 200 unless a status is committed,
\* then writes the body, which succeeds (ok) or fails.
Write(q, body, ok) ==
  [ q EXCEPT !.status = IF q.status = 0 THEN StatusOK ELSE q.status,
             !.body = body,
             !.written = IF ok THEN "ok" ELSE "err" ]

\* A reply to the wrong method that tells it apart from a missing page.
MethodNotAllowed(q) ==
  Write([ q EXCEPT !.contentType = "text/plain; charset=utf-8",
                   !.status = 405 ], NotFoundBody, TRUE)

\* http.NotFound: a 404 with the text/plain body "404 page not found".  The
\* library drops the result of its write, which is taken to succeed.
NotFound(q) ==
  Write([ q EXCEPT !.contentType = "text/plain; charset=utf-8",
                   !.status = StatusNotFound ], NotFoundBody, TRUE)

\* -------------------------------------------------------- serveImage
\* A serveImage that sets no Cache-Control header.
ServeImageWriteCacheable(r, ok) ==
  /\ Alive
  /\ req[r].pc = "serveImage"
  /\ IF req[r].method # "GET"
       THEN /\ ok
            /\ req' = [ req EXCEPT ![r] = [ NotFound(req[r]) EXCEPT !.pc = "deferred" ] ]
       ELSE req' = [ req EXCEPT ![r] =
                       [ Write([ req[r] EXCEPT !.contentType = "image/gif" ], GIF, ok)
                           EXCEPT !.pc = IF ok THEN "incSuccess" ELSE "incFailure" ] ]
  /\ UNCHANGED << marker, GIF, metrics, lifecycle, serviceLog >>

\* serveImage, from its entry to the write: the deferred
\* trackServeImageDuration is registered and the method is checked.  Another
\* method than GET is answered by http.NotFound and the handler returns (into
\* the deferred call).  GET sets the two headers and calls w.Write(GIF), which
\* succeeds (ok) or fails.
ServeImageWrite(r, ok) ==
  /\ Alive
  /\ req[r].pc = "serveImage"
  /\ IF req[r].method # "GET"
       THEN /\ ok
            /\ req' = [ req EXCEPT ![r] = [ NotFound(req[r]) EXCEPT !.pc = "deferred" ] ]
       ELSE req' = [ req EXCEPT ![r] =
                       [ Write([ req[r] EXCEPT !.cacheControl = NoCache,
                                               !.contentType = "image/gif" ], GIF, ok)
                           EXCEPT !.pc = IF ok THEN "incSuccess" ELSE "incFailure" ] ]
  /\ UNCHANGED << marker, GIF, metrics, lifecycle, serviceLog >>

\* A failure branch that counts nothing.
ServeImageFailureUncounted(r) ==
  /\ Alive
  /\ req[r].pc = "incFailure"
  /\ req' = [ req EXCEPT ![r].pc = "deferred" ]
  /\ UNCHANGED << marker, GIF, metrics, lifecycle, serviceLog >>

\* A failure branch without its return: it falls through to the success path.
ServeImageFailureNoReturn(r) ==
  /\ Alive
  /\ req[r].pc = "incFailure"
  /\ serveImageRequestsCount' =
       [ serveImageRequestsCount EXCEPT !["failure"] = CounterInc(@) ]
  /\ req' = [ req EXCEPT ![r].pc = "incSuccess" ]
  /\ UNCHANGED << marker, GIF, serveImageRequestDuration, serveImageRequestsSize,
                  lifecycle, serviceLog >>

\* serveImageRequestsCount.WithLabelValues("failure").Inc(); return
ServeImageIncFailure(r) ==
  /\ Alive
  /\ req[r].pc = "incFailure"
  /\ serveImageRequestsCount' =
       [ serveImageRequestsCount EXCEPT !["failure"] = CounterInc(@) ]
  /\ req' = [ req EXCEPT ![r].pc = "deferred" ]
  /\ UNCHANGED << marker, GIF, serveImageRequestDuration, serveImageRequestsSize,
                  lifecycle, serviceLog >>

\* The size added before the success is counted: the two updates in the
\* other order, the size first.
ServeImageSizeFirst(r) ==
  /\ Alive
  /\ req[r].pc = "incSuccess"
  /\ serveImageRequestsSize' = CounterAdd(serveImageRequestsSize, Len(GIF))
  /\ req' = [ req EXCEPT ![r].pc = "addSize" ]
  /\ UNCHANGED << marker, GIF, serveImageRequestDuration, serveImageRequestsCount,
                  lifecycle, serviceLog >>

\* serveImageRequestsCount.WithLabelValues("success").Inc()
ServeImageIncSuccess(r) ==
  /\ Alive
  /\ req[r].pc = "incSuccess"
  /\ serveImageRequestsCount' =
       [ serveImageRequestsCount EXCEPT !["success"] = CounterInc(@) ]
  /\ req' = [ req EXCEPT ![r].pc = "addSize" ]
  /\ UNCHANGED << marker, GIF, serveImageRequestDuration, serveImageRequestsSize,
                  lifecycle, serviceLog >>

\* serveImageRequestsSize.Add(float64(len(GIF)))
ServeImageAddSize(r) ==
  /\ Alive
  /\ req[r].pc = "addSize"
  /\ serveImageRequestsSize' = CounterAdd(serveImageRequestsSize, Len(GIF))
  /\ req' = [ req EXCEPT ![r].pc = "deferred" ]
  /\ UNCHANGED << marker, GIF, serveImageRequestDuration, serveImageRequestsCount,
                  lifecycle, serviceLog >>

\* A duration that is measured for GET alone (the defer after the method check).
trackServeImageDurationOfGET(r) ==
  /\ Alive
  /\ req[r].pc = "deferred"
  /\ serveImageRequestDuration' =
       IF req[r].method = "GET" THEN SummaryObserve(serveImageRequestDuration)
                                ELSE serveImageRequestDuration
  /\ req' = [ req EXCEPT ![r].pc = "done" ]
  /\ UNCHANGED << marker, GIF, serveImageRequestsSize, serveImageRequestsCount,
                  lifecycle, serviceLog >>

\* A duration that is measured on the successful return alone.
trackServeImageDurationOfSuccess(r) ==
  /\ Alive
  /\ req[r].pc = "deferred"
  /\ serveImageRequestDuration' =
       IF req[r].written = "ok" /\ req[r].method = "GET"
         THEN SummaryObserve(serveImageRequestDuration)
         ELSE serveImageRequestDuration
  /\ req' = [ req EXCEPT ![r].pc = "done" ]
  /\ UNCHANGED << marker, GIF, serveImageRequestsSize, serveImageRequestsCount,
                  lifecycle, serviceLog >>

\* The deferred call runs when serveImage returns, whichever return it takes.
trackServeImageDuration(r) ==
  /\ Alive
  /\ req[r].pc = "deferred"
  /\ serveImageRequestDuration' = SummaryObserve(serveImageRequestDuration)
  /\ req' = [ req EXCEPT ![r].pc = "done" ]
  /\ UNCHANGED << marker, GIF, serveImageRequestsSize, serveImageRequestsCount,
                  lifecycle, serviceLog >>

serveImage(r) ==
  \/ \E ok \in BOOLEAN : ServeImageWrite(r, ok)
  \/ ServeImageIncFailure(r)
  \/ ServeImageIncSuccess(r)
  \/ ServeImageAddSize(r)
  \/ trackServeImageDuration(r)

\* -------------------------------------------------------- serveState
\* serveState, from its entry to the health check: another method than GET is
\* answered by http.NotFound; GET sets the two headers and calls
\* serviceHealthy(), one os.Stat of the state file.
ServeStateCheck(r) ==
  /\ Alive
  /\ req[r].pc = "serveState"
  /\ IF req[r].method # "GET"
       THEN req' = [ req EXCEPT ![r] = [ NotFound(req[r]) EXCEPT !.pc = "done" ] ]
       ELSE req' = [ req EXCEPT ![r] = [ req[r] EXCEPT !.cacheControl = NoCache,
                                                       !.contentType = "text/html",
                                                       !.healthy = serviceHealthy,
                                                       !.pc = "writeState" ] ]
  /\ UNCHANGED << marker, GIF, metrics, lifecycle, serviceLog >>

\* The response of serveState for the result of the health check.
StateResponse(q, ok) ==
  IF ~q.healthy
    THEN Write([ q EXCEPT !.status = StatusServiceUnavailable ], Error503Body, ok)
    ELSE Write(q, OKBody, ok)

\* A state handler that counts its failed writes among the tracking failures.
ServeStateWriteCounted(r, ok) ==
  /\ Alive
  /\ req[r].pc = "writeState"
  /\ req' = [ req EXCEPT ![r] = [ StateResponse(req[r], ok) EXCEPT !.pc = "done" ] ]
  /\ serviceLog' = IF ok THEN serviceLog ELSE Append(serviceLog, "WARNING")
  /\ serveImageRequestsCount' =
       IF ok THEN serveImageRequestsCount
             ELSE [ serveImageRequestsCount EXCEPT !["failure"] = CounterInc(@) ]
  /\ UNCHANGED << marker, GIF, serveImageRequestDuration, serveImageRequestsSize,
                  lifecycle >>

\* The response is written; a failed write is logged as a warning.
ServeStateWrite(r, ok) ==
  /\ Alive
  /\ req[r].pc = "writeState"
  /\ req' = [ req EXCEPT ![r] = [ StateResponse(req[r], ok) EXCEPT !.pc = "done" ] ]
  /\ serviceLog' = IF ok THEN serviceLog ELSE Append(serviceLog, "WARNING")
  /\ UNCHANGED << marker, GIF, metrics, lifecycle >>

serveState(r) ==
  \/ ServeStateCheck(r)
  \/ \E ok \in BOOLEAN : ServeStateWrite(r, ok)

\* ------------------------------------------- the handlers of libraries
\* The text promhttp.Handler() exposes: the values of the tracking metrics.
Exposition ==
  << serveImageRequestDuration, serveImageRequestsSize,
     serveImageRequestsCount["success"], serveImageRequestsCount["failure"] >>

\* promhttp.Handler(): answers any method with the exposition of the registry.
PromHandler(r) ==
  /\ Alive
  /\ req[r].pc = "promhttp"
  /\ req' = [ req EXCEPT ![r] =
                [ Write([ req[r] EXCEPT !.contentType = "text/plain; version=0.0.4" ],
                        Exposition, TRUE) EXCEPT !.pc = "done" ] ]
  /\ UNCHANGED << marker, GIF, metrics, lifecycle, serviceLog >>

\* The router answers a path without a route by http.NotFound.
RouterNotFound(r) ==
  /\ Alive
  /\ req[r].pc = "notFound"
  /\ req' = [ req EXCEPT ![r] = [ NotFound(req[r]) EXCEPT !.pc = "done" ] ]
  /\ UNCHANGED << marker, GIF, metrics, lifecycle, serviceLog >>

\* The requests whose handler is running.
InFlight == { r \in Reqs : req[r].pc \notin {"idle", "done"} }

\* ------------------------------------------------------------- main
\* initMetrics(): the three metrics are registered.
initMetrics ==
  /\ Alive
  /\ mainPC = "initMetrics"
  /\ mainPC' = "initServer"
  /\ UNCHANGED << req, marker, GIF, metrics, srvPC, inShutdown, ctx, shutdownErr,
                  lastSignal, serviceLog, exitCode >>

\* initServer(): the routes, the log outputs and the http.Server are set up.
initServer ==
  /\ Alive
  /\ mainPC = "initServer"
  /\ mainPC' = "go"
  /\ UNCHANGED << req, marker, GIF, metrics, srvPC, inShutdown, ctx, shutdownErr,
                  lastSignal, serviceLog, exitCode >>

\* go func() { startServer(srv) }(); main goes on to <-terminateServer.
GoStartServer ==
  /\ Alive
  /\ mainPC = "go"
  /\ mainPC' = "wait"
  /\ srvPC' = "startServer"
  /\ UNCHANGED << req, marker, GIF, metrics, inShutdown, ctx, shutdownErr,
                  lastSignal, serviceLog, exitCode >>

\* A second signal that cuts the shutdown in progress short (the channel
\* polled by the shutdown routine).
SignalShortens ==
  /\ Alive
  /\ IF mainPC = "wait"
       THEN lastSignal' = "received" /\ mainPC' = "stopServer"
       ELSE /\ lastSignal' = "dropped"
            /\ mainPC' = IF mainPC = "shutdown" THEN "return" ELSE mainPC
  /\ UNCHANGED << req, marker, GIF, metrics, srvPC, inShutdown, ctx,
                  shutdownErr, serviceLog, exitCode >>

\* An interrupt or termination signal is sent to the process.  signal.Notify
\* relays it by a send that does not block: terminateServer has no buffer, so
\* main gets the signal only while it is receiving on the channel.
Signal ==
  /\ Alive
  /\ IF mainPC = "wait"
       THEN lastSignal' = "received" /\ mainPC' = "stopServer"
       ELSE lastSignal' = "dropped" /\ mainPC' = mainPC
  /\ UNCHANGED << req, marker, GIF, metrics, srvPC, inShutdown, ctx, shutdownErr,
                  serviceLog, exitCode >>

\* ------------------------------------------------------ startServer
\* The startup line left to after srv.ListenAndServe, which blocks while the
\* server serves: the bind is attempted with nothing logged.
StartServerLogAfterServe ==
  /\ Alive
  /\ srvPC = "startServer"
  /\ srvPC' = "listen"
  /\ UNCHANGED << req, marker, GIF, metrics, mainPC, inShutdown, ctx, shutdownErr,
                  lastSignal, serviceLog, exitCode >>

\* log.Println("INFO http: Server started", *listenAddress)
StartServerLog ==
  /\ Alive
  /\ srvPC = "startServer"
  /\ serviceLog' = Append(serviceLog, "Server started")
  /\ srvPC' = "listen"
  /\ UNCHANGED << req, marker, GIF, metrics, mainPC, inShutdown, ctx, shutdownErr,
                  lastSignal, exitCode >>

\* srv.ListenAndServe(): returns http.ErrServerClosed at once when Shutdown was
\* called before; otherwise binds the listener, which succeeds (the server
\* serves until Shutdown closes the listener) or fails with the bind error.
ListenAndServe(bound) ==
  /\ Alive
  /\ srvPC = "listen"
  /\ srvPC' = IF inShutdown THEN "ErrServerClosed"
              ELSE IF bound THEN "serving" ELSE "bindError"
  /\ inShutdown => bound
  /\ UNCHANGED << req, marker, GIF, metrics, mainPC, inShutdown, ctx, shutdownErr,
                  lastSignal, serviceLog, exitCode >>

\* err != http.ErrServerClosed: log.Fatal("ERROR ", err) logs and exits with 1.
StartServerFatal ==
  /\ Alive
  /\ srvPC = "bindError"
  /\ serviceLog' = Append(serviceLog, "ERROR")
  /\ exitCode' = 1
  /\ UNCHANGED << req, marker, GIF, metrics, mainPC, srvPC, inShutdown, ctx,
                  shutdownErr, lastSignal >>

\* err == http.ErrServerClosed: startServer returns and the goroutine ends.
StartServerReturn ==
  /\ Alive
  /\ srvPC = "ErrServerClosed"
  /\ srvPC' = "returned"
  /\ UNCHANGED << req, marker, GIF, metrics, mainPC, inShutdown, ctx, shutdownErr,
                  lastSignal, serviceLog, exitCode >>

startServer ==
  \/ StartServerLog
  \/ \E bound \in BOOLEAN : ListenAndServe(bound)
  \/ StartServerFatal
  \/ StartServerReturn

\* ------------------------------------------------------- stopServer
\* context.WithTimeout(context.Background(), 8*time.Second) and
\* log.Println("INFO http: Server stopping")
StopServerBegin ==
  /\ Alive
  /\ mainPC = "stopServer"
  /\ ctx' = "live"
  /\ serviceLog' = Append(serviceLog, "Server stopping")
  /\ mainPC' = "callShutdown"
  /\ UNCHANGED << req, marker, GIF, metrics, srvPC, inShutdown, shutdownErr,
                  lastSignal, exitCode >>

\* A shutdown that waits for the requests in flight without closing the
\* listener.
ShutdownCallListenerOpen ==
  /\ Alive
  /\ mainPC = "callShutdown"
  /\ inShutdown' = TRUE
  /\ mainPC' = "shutdown"
  /\ UNCHANGED << req, marker, GIF, metrics, srvPC, ctx, shutdownErr,
                  lastSignal, serviceLog, exitCode >>

\* srv.Shutdown(ctx) is called: the listener is closed, so ListenAndServe
\* returns http.ErrServerClosed, and Shutdown waits for the connections.
ShutdownCall ==
  /\ Alive
  /\ mainPC = "callShutdown"
  /\ inShutdown' = TRUE
  /\ srvPC' = IF srvPC = "serving" THEN "ErrServerClosed" ELSE srvPC
  /\ mainPC' = "shutdown"
  /\ UNCHANGED << req, marker, GIF, metrics, ctx, shutdownErr, lastSignal,
                  serviceLog, exitCode >>

\* Every connection is idle before the context expires: Shutdown returns nil.
ShutdownReturn ==
  /\ Alive
  /\ mainPC = "shutdown"
  /\ InFlight = {}
  /\ shutdownErr' = "nil"
  /\ mainPC' = "logOutcome"
  /\ UNCHANGED << req, marker, GIF, metrics, srvPC, inShutdown, ctx, lastSignal,
                  serviceLog, exitCode >>

\* A shutdown without a bound (srv.Shutdown(context.Background())): the
\* context never expires.
ContextNeverExpires ==
  /\ Alive
  /\ mainPC = "shutdown"
  /\ FALSE
  /\ UNCHANGED vars

\* The 8 seconds of the context pass before the shutdown is complete, a
\* handler still running: Shutdown returns the error of the context.  (The
\* two statements between context.WithTimeout and srv.Shutdown take less
\* than the 8 seconds.)
ContextTimeout ==
  /\ Alive
  /\ mainPC = "shutdown"
  /\ ctx = "live"
  /\ InFlight # {}
  /\ ctx' = "expired"
  /\ shutdownErr' = "deadline"
  /\ mainPC' = "logOutcome"
  /\ UNCHANGED << req, marker, GIF, metrics, srvPC, inShutdown, lastSignal,
                  serviceLog, exitCode >>

\* An outcome logged with the test of the error inverted.
StopServerLogInverted ==
  /\ Alive
  /\ mainPC = "logOutcome"
  /\ serviceLog' = Append(serviceLog, IF shutdownErr = "nil"
                                        THEN "Server stopped forcefully"
                                        ELSE "Server stopped gracefully")
  /\ mainPC' = "return"
  /\ UNCHANGED << req, marker, GIF, metrics, srvPC, inShutdown, ctx, shutdownErr,
                  lastSignal, exitCode >>

\* The outcome of Shutdown is logged.
StopServerLog ==
  /\ Alive
  /\ mainPC = "logOutcome"
  /\ serviceLog' = Append(serviceLog, IF shutdownErr # "nil"
                                        THEN "Server stopped forcefully"
                                        ELSE "Server stopped gracefully")
  /\ mainPC' = "return"
  /\ UNCHANGED << req, marker, GIF, metrics, srvPC, inShutdown, ctx, shutdownErr,
                  lastSignal, exitCode >>

stopServer ==
  \/ StopServerBegin
  \/ ShutdownCall
  \/ ShutdownReturn
  \/ ContextTimeout
  \/ StopServerLog

\* stopServer has returned (its deferred cancel has run): main returns and
\* the process exits with 0, whatever the other goroutines are doing.
MainReturn ==
  /\ Alive
  /\ mainPC = "return"
  /\ mainPC' = "exited"
  /\ exitCode' = 0
  /\ UNCHANGED << req, marker, GIF, metrics, srvPC, inShutdown, ctx, shutdownErr,
                  lastSignal, serviceLog >>

main ==
  \/ initMetrics
  \/ initServer
  \/ GoStartServer
  \/ stopServer
  \/ MainReturn

\* ------------------------------------------------------ the process
Next ==
  \/ main
  \/ startServer
  \/ Signal
  \/ TouchState
  \/ \E r \in Reqs, k \in Requests : Accept(r, k[1], k[2])
  \/ \E r \in Reqs : serveImage(r)
  \/ \E r \in Reqs : serveState(r)
  \/ \E r \in Reqs : PromHandler(r)
  \/ \E r \in Reqs : RouterNotFound(r)

Spec == Init /\ [][Next]_vars

\* The goroutines of main and of startServer are runnable whenever one of their
\* steps is enabled, and the Go scheduler runs a runnable goroutine; the timer
\* of the shutdown context fires (ContextTimeout is a step of stopServer).
\* Signals, requests, the state file and the progress of a handler (its write
\* waits for the client) are the environment's: no fairness for them.
FairSpec == Spec /\ WF_vars(main) /\ WF_vars(startServer)

\* ================================================================ claims
StateGET(r) == req[r].path = "state" /\ req[r].method = "GET"
TrackGET(r) == req[r].path = "track" /\ req[r].method = "GET"

TrackDone == { r \in Reqs : req[r].path = "track" /\ req[r].pc = "done" }
\* No invocation of serveImage is executing.
NoTrackExecuting == \A r \in Reqs : req[r].path = "track" => req[r].pc = "done"
\* A request with another method than GET on the tracking or the state path.
NonGET(r) == req[r].path \in {"track", "state"} /\ req[r].method # "GET"

\* C2: no increment is lost.  In every state the success counter is the number
\* of GET requests of the tracking path that have passed their increment after
\* a successful write, and the size counter is 42 times the number of those
\* that have passed their addition; so once N such requests have completed and
\* no tracking handler is executing, the success counter is N and the size
\* counter is N x 42.
C2_SuccessAndSize ==
  LET counted == { r \in Reqs : TrackGET(r) /\ req[r].written = "ok"
                                  /\ req[r].pc \in {"addSize", "deferred", "done"} }
      added   == { r \in Reqs : TrackGET(r) /\ req[r].written = "ok"
                                  /\ req[r].pc \in {"deferred", "done"} }
      N       == Cardinality({ r \in TrackDone : TrackGET(r) /\ req[r].written = "ok" })
  IN /\ serveImageRequestsCount["success"] = Cardinality(counted)
     /\ serveImageRequestsSize = 42 * Cardinality(added)
     /\ NoTrackExecuting => /\ serveImageRequestsCount["success"] = N
                            /\ serveImageRequestsSize = N * 42

\* Two GET requests of the tracking path have completed after a successful write.
C2_Witness ==
  /\ \A r \in {1, 2} : TrackGET(r) /\ req[r].pc = "done" /\ req[r].written = "ok"
  /\ serveImageRequestsCount["success"] = 2
  /\ serveImageRequestsSize = 84

\* C3 as stated: a request with another method than GET on the tracking or the
\* state path is answered 404 and no step of it changes any metric, the
\* number of observations of the duration included.
C3_NonGETNoMetrics ==
  /\ [](\A r \in Reqs : NonGET(r) /\ req[r].pc = "done" => req[r].status = 404)
  /\ [][\A r \in Reqs : NonGET(r) /\ req'[r] # req[r] => UNCHANGED metrics]_vars

\* C3, amended: a request with another method than GET on the tracking or the
\* state path is answered 404; on the state path no step of it changes any
\* metric; on the tracking path no step of it changes the size counter or an
\* outcome counter, and its return records one observation of the duration.
C3_NonGETCounters ==
  /\ [](\A r \in Reqs : NonGET(r) /\ req[r].pc = "done" => req[r].status = 404)
  /\ [][\A r \in Reqs : NonGET(r) /\ req'[r] # req[r] =>
          /\ UNCHANGED << serveImageRequestsSize, serveImageRequestsCount >>
          /\ serveImageRequestDuration' =
               IF req[r].path = "track" /\ req'[r].pc = "done"
                 THEN serveImageRequestDuration + 1
                 ELSE serveImageRequestDuration]_vars

\* A POST of the tracking path has returned: 404, one observation, no count.
C3_Witness ==
  /\ req[1].path = "track" /\ req[1].method = "POST" /\ req[1].pc = "done"
  /\ req[1].status = 404
  /\ req[2].pc = "idle"
  /\ serveImageRequestDuration = 1
  /\ serveImageRequestsSize = 0
  /\ serveImageRequestsCount = [ l \in {"success", "failure"} |-> 0 ]

\* C4 as stated: when no tracking handler is executing, the success and the
\* failure counter add up to the number of completed invocations of it.
C4_SumOfInvocations ==
  NoTrackExecuting =>
    serveImageRequestsCount["success"] + serveImageRequestsCount["failure"]
      = Cardinality(TrackDone)

\* C4, amended: when no tracking handler is executing, the success and the
\* failure counter add up to the number of completed invocations of it for a
\* GET request (an invocation for another method counts nothing).
C4_SumOfGETInvocations ==
  NoTrackExecuting =>
    serveImageRequestsCount["success"] + serveImageRequestsCount["failure"]
      = Cardinality({ r \in TrackDone : req[r].method = "GET" })

\* One write succeeded and one failed.
C4_Witness ==
  /\ NoTrackExecuting
  /\ TrackGET(1) /\ TrackGET(2)
  /\ serveImageRequestsCount["success"] = 1
  /\ serveImageRequestsCount["failure"] = 1

\* C5 as stated: the number of observations of the duration is the number of
\* completed responses to GET requests of the tracking path (taken when no
\* tracking handler is executing, the observation being the handler's last step).
C5_ObservationsOfGET ==
  NoTrackExecuting =>
    serveImageRequestDuration
      = Cardinality({ r \in TrackDone : req[r].method = "GET" })

\* C5, amended: in every state the number of observations of the duration is
\* the number of invocations of the tracking handler that have returned,
\* whatever the method and the outcome of the write.
C5_ObservationsOfInvocations ==
  serveImageRequestDuration = Cardinality(TrackDone)

\* A 404 and a failed write have one observation each.
C5_Witness ==
  /\ req[1].path = "track" /\ req[1].method = "POST" /\ req[1].pc = "done"
  /\ TrackGET(2) /\ req[2].pc = "done" /\ req[2].written = "err"
  /\ serveImageRequestDuration = 2

\* A GET request of the tracking path whose write has failed.
FailedWrite(r) == TrackGET(r) /\ req[r].written = "err"

\* C6: after a failed write of a GET request of the tracking path the handler
\* adds one to the failure counter and nothing to the success and the size
\* counter, records one observation of the duration and returns; the process
\* keeps running and the server accepts the next request.
C6_WriteFailure ==
  /\ [](\A r \in Reqs : FailedWrite(r) =>
          /\ req[r].pc \in {"incFailure", "deferred", "done"}
          /\ req[r].pc = "done" /\ Alive /\ srvPC = "serving" /\ r < MaxReqs
               /\ req[r + 1].pc = "idle"
               => ENABLED Accept(r + 1, "track", "GET"))
  /\ [][\A r \in Reqs : FailedWrite(r) /\ req'[r] # req[r] =>
          /\ UNCHANGED << serveImageRequestsSize, exitCode, srvPC >>
          /\ serveImageRequestsCount'["success"] = serveImageRequestsCount["success"]
          /\ \/ /\ req[r].pc = "incFailure" /\ req'[r].pc = "deferred"
                /\ serveImageRequestsCount'["failure"]
                     = serveImageRequestsCount["failure"] + 1
                /\ UNCHANGED serveImageRequestDuration
             \/ /\ req[r].pc = "deferred" /\ req'[r].pc = "done"
                /\ UNCHANGED serveImageRequestsCount
                /\ serveImageRequestDuration' = serveImageRequestDuration + 1]_vars

\* The write of the first request failed; the server has served the second.
C6_Witness ==
  /\ FailedWrite(1) /\ req[1].pc = "done"
  /\ serveImageRequestsCount = [ l \in {"success", "failure"} |-> IF l = "failure" THEN 1 ELSE 0 ]
  /\ serveImageRequestsSize = 0
  /\ serveImageRequestDuration = 1
  /\ StateGET(2) /\ req[2].pc = "done" /\ req[2].status = 200

\* The positions of the service log that hold an outcome of the shutdown.
Outcomes ==
  { i \in DOMAIN serviceLog :
      serviceLog[i] \in {"Server stopped gracefully", "Server stopped forcefully"} }
Logged(line) == \E i \in DOMAIN serviceLog : serviceLog[i] = line
\* The requests the server has accepted.
Accepted == { r \in Reqs : req[r].pc # "idle" }

C9_ExitCode ==
  /\ exitCode \in {Running, 0, 1}
  /\ ~Alive => (exitCode # 0 <=> srvPC = "bindError")
  /\ ~Alive /\ Outcomes # {} => exitCode = 0
  /\ srvPC \in {"ErrServerClosed", "returned"} => exitCode # 1 /\ ~Logged("ERROR")

\* C10: a GET request of the tracking path whose body write succeeded has
\* status 200, the Cache-Control header "no-cache, no-store, must-revalidate",
\* the content type image/gif and the 42 bytes of the image as its body,
\* whatever the state file, the metrics and the other requests are; the image
\* is never modified.
C10_TrackingImage ==
  /\ GIF = GIFImage
  /\ \A r \in Reqs : TrackGET(r) /\ req[r].written = "ok" =>
       /\ req[r].status = 200
       /\ req[r].cacheControl = "no-cache, no-store, must-revalidate"
       /\ req[r].contentType = "image/gif"
       /\ req[r].body = GIFImage
       /\ Len(req[r].body) = 42

\* The image is served after a failed request, without a state file.
C10_Witness ==
  /\ FailedWrite(1) /\ req[1].pc = "done"
  /\ TrackGET(2) /\ req[2].pc = "done" /\ req[2].written = "ok"
  /\ req[2].body = GIFImage /\ req[2].status = 200
  /\ ~marker
  /\ serveImageRequestsCount["failure"] = 1

\* ------------------------------------------------------------------- C11
SignalSent == lastSignal # "none"
ShutdownBegun == Logged("Server stopping")

\* C11: every termination signal delivered after signal.Notify has registered
\* the channel eventually makes the shutdown begin ("Server stopping" is
\* logged) while the process lives, also a signal that arrives while main is
\* still in initMetrics or initServer and not yet receiving on the channel.
C11_SignalBeginsShutdown ==
  SignalSent ~> (ShutdownBegun \/ ~Alive)

\* ------------------------------------------------------------------- C12
SignalReceived == mainPC \notin {"initMetrics", "initServer", "go", "wait"}

\* C12: once main has received a termination signal the process eventually
\* exits, whatever the handlers in flight do; srv.Shutdown returns nil only
\* when no request is in flight, and the error of the expired context only
\* with a request still in flight, and while it waits one of the two returns
\* is possible.
C12_ProcessExits ==
  /\ SignalReceived ~> ~Alive
  /\ [](Alive /\ mainPC = "shutdown"
          => ENABLED ShutdownReturn \/ ENABLED ContextTimeout)
  /\ [][mainPC = "shutdown" /\ mainPC' # "shutdown" =>
          \/ InFlight = {} /\ shutdownErr' = "nil" /\ ctx' = "live"
          \/ InFlight # {} /\ shutdownErr' = "deadline" /\ ctx' = "expired"]_vars

\* A tracking handler that never took a step after it was dispatched; the
\* bound elapsed and main returned.
C12_Witness ==
  /\ exitCode = 0
  /\ lastSignal = "received"
  /\ shutdownErr = "deadline"
  /\ TrackGET(1) /\ req[1].pc = "serveImage"
  /\ req[2].pc = "idle"

\* ------------------------------------------------------------------- C13
NoNewRequest == \A r \in Reqs : req[r].pc = "idle" => req'[r].pc = "idle"

\* C13 as stated: from the moment the shutdown begins ("Server stopping" is
\* logged) no new connection is accepted and no new request is dispatched to
\* a handler.
C13_NoRequestAfterStopping ==
  [][ShutdownBegun => NoNewRequest]_vars

\* C13, amended: from the call of srv.Shutdown on the listener is closed for
\* good and no new connection is accepted nor request dispatched; the requests
\* accepted before the call, those accepted after "Server stopping" was logged
\* among them, are the only ones that still run.
C13_NoRequestAfterShutdownCall ==
  /\ [](inShutdown => srvPC # "serving")
  /\ [][inShutdown => NoNewRequest]_vars
  /\ [][mainPC = "callShutdown" /\ mainPC' = "shutdown" =>
          inShutdown' /\ srvPC' # "serving" /\ req' = req]_vars

\* Shutdown is waiting for a request in flight; the listener has returned
\* and the second request was never accepted.
C13_Witness ==
  /\ Alive /\ mainPC = "shutdown" /\ inShutdown
  /\ srvPC = "returned"
  /\ 1 \in InFlight /\ req[1].pc = "addSize"
  /\ req[2].pc = "idle"

\* ------------------------------------------------------------------- C14
Stoppings == { i \in DOMAIN serviceLog : serviceLog[i] = "Server stopping" }

\* A signal that arrives after the one main has received changes nothing but
\* the record of the last signal.
LaterSignalIgnored ==
  SignalReceived /\ lastSignal' # lastSignal =>
    /\ lastSignal' = "dropped"
    /\ UNCHANGED << req, marker, GIF, metrics, mainPC, srvPC, inShutdown, ctx,
                    shutdownErr, serviceLog, exitCode >>

\* C14 as stated: "Server stopping" is logged at most once, the server never
\* accepts a connection after it was logged, main never goes back to waiting
\* for a signal, and a signal that arrives after the received one has no
\* effect on the shutdown in progress.
C14_OneWayAfterStopping ==
  /\ [](Cardinality(Stoppings) <= 1)
  /\ [][ShutdownBegun => NoNewRequest /\ srvPC' # "serving"]_vars
  /\ [][SignalReceived => SignalReceived']_vars
  /\ [][LaterSignalIgnored]_vars

\* C14, amended: the same, the server accepting no connection from the call
\* of srv.Shutdown on, which is never undone.
C14_OneWayAfterShutdownCall ==
  /\ [](Cardinality(Stoppings) <= 1)
  /\ [](inShutdown => SignalReceived /\ ShutdownBegun /\ srvPC # "serving")
  /\ [][inShutdown => inShutdown' /\ NoNewRequest]_vars
  /\ [][SignalReceived => SignalReceived']_vars
  /\ [][ShutdownBegun => ShutdownBegun']_vars
  /\ [][LaterSignalIgnored]_vars

\* A second signal arrived while Shutdown was waiting for a request; the
\* shutdown went on to its forceful end.
C14_Witness ==
  /\ lastSignal = "dropped"
  /\ mainPC = "logOutcome" /\ shutdownErr = "deadline"
  /\ Cardinality(Stoppings) = 1
  /\ 1 \in InFlight

\* ------------------------------------------------------------------- C15
\* The step is one of request r: its accept or a step of its handler.
StepOf(r) == req'[r] # req[r]

\* C15: no step of a request to the state path or to the metrics path, of any
\* method, health result or write outcome, changes the duration count, the
\* total-bytes counter or an outcome counter; every step that changes one of
\* them is a step of the tracking handler.
C15_OnlyTrackingMutates ==
  /\ [][\A r \in Reqs :
          StepOf(r) /\ req'[r].path \in {"state", "metrics"} => UNCHANGED metrics]_vars
  /\ [][metrics' # metrics =>
          \E r \in Reqs :
            /\ StepOf(r) /\ req[r].path = "track"
            /\ req[r].pc \in {"incSuccess", "incFailure", "addSize", "deferred"}]_vars

\* A GET of the state path whose write failed, the service unhealthy, and a
\* scrape of the metrics path, both done: the registry is as initMetrics
\* left it.
C15_Witness ==
  /\ StateGET(1) /\ req[1].pc = "done" /\ req[1].written = "err"
  /\ ~req[1].healthy
  /\ req[2].path = "metrics" /\ req[2].pc = "done" /\ req[2].status = StatusOK
  /\ req[2].body = << 0, 0, 0, 0 >>
  /\ metrics = << 0, 0, [success |-> 0, failure |-> 0] >>

\* ------------------------------------------------------------------- C16
\* C16: the total-bytes counter, the success counter, the failure counter and
\* the observation count of the duration distribution are natural numbers
\* that start at zero, and no step decreases one of them.
C16_Monotonic ==
  /\ [](/\ serveImageRequestsSize \in Nat
        /\ serveImageRequestDuration \in Nat
        /\ serveImageRequestsCount["success"] \in Nat
        /\ serveImageRequestsCount["failure"] \in Nat)
  /\ [][/\ serveImageRequestsSize' >= serveImageRequestsSize
        /\ serveImageRequestDuration' >= serveImageRequestDuration
        /\ serveImageRequestsCount'["success"] >= serveImageRequestsCount["success"]
        /\ serveImageRequestsCount'["failure"] >= serveImageRequestsCount["failure"]]_vars

\* Two tracking requests done, one written and one failed: every one of the
\* four has grown, the success counter last with a failure counted before.
C16_Witness ==
  /\ serveImageRequestsCount = [success |-> 1, failure |-> 1]
  /\ serveImageRequestsSize = Len(GIF)
  /\ serveImageRequestDuration = 2
  /\ req[1].written = "err" /\ req[2].written = "ok"

\* ------------------------------------------------------------------- C17
\* The invocations of serveImage that have started.
TrackStarted == { r \in Reqs : req[r].path = "track" /\ req[r].pc # "idle" }

\* C17: a tracking request updates its metrics in separate steps, the success
\* counter, then the total-bytes counter, then the duration observation, each
\* step changing that one metric only; so in every state total-bytes is at
\* most 42 times the success counter, the duration count is at most the number
\* of invocations started, and total-bytes is 42 times the success counter
\* when no tracking handler is executing.
C17_UpdateOrder ==
  /\ [](/\ Len(GIF) = 42
        /\ serveImageRequestsSize <= 42 * serveImageRequestsCount["success"]
        /\ serveImageRequestDuration <= Cardinality(TrackStarted)
        /\ NoTrackExecuting =>
             serveImageRequestsSize = 42 * serveImageRequestsCount["success"])
  /\ [][\A r \in Reqs : StepOf(r) =>
          /\ req[r].pc = "incSuccess" =>
               /\ req'[r].pc = "addSize"
               /\ serveImageRequestsCount'["success"]
                    = serveImageRequestsCount["success"] + 1
               /\ UNCHANGED << serveImageRequestsSize, serveImageRequestDuration >>
          /\ req[r].pc = "addSize" =>
               /\ req'[r].pc = "deferred"
               /\ serveImageRequestsSize' = serveImageRequestsSize + 42
               /\ UNCHANGED << serveImageRequestsCount, serveImageRequestDuration >>
          /\ req[r].pc = "deferred" =>
               /\ req'[r].pc = "done"
               /\ serveImageRequestDuration' = serveImageRequestDuration + 1
               /\ UNCHANGED << serveImageRequestsCount, serveImageRequestsSize >>]_vars

\* A scrape answered between the two updates of a tracking request: it shows
\* one success and no byte (k = 0).
C17_Witness ==
  /\ TrackGET(1) /\ req[1].pc = "addSize"
  /\ req[2].path = "metrics" /\ req[2].pc = "done"
  /\ req[2].body[3] = 1 /\ req[2].body[2] = 0
  /\ serveImageRequestsCount["success"] = 1 /\ serveImageRequestsSize = 0

\* ------------------------------------------------------------------- C18
\* startServer has run its first statement.
StartServerRunning == srvPC \notin {"none", "startServer"}

\* C18: "Server started" is logged by the first step of the background task,
\* before srv.ListenAndServe is called: it is in the log whenever the bind has
\* been attempted, whatever the bind gave, it is logged once, and the error
\* line of the fatal path comes after it.
C18_StartedBeforeBind ==
  /\ [](StartServerRunning <=> Logged("Server started"))
  /\ [](\A i, j \in DOMAIN serviceLog :
          serviceLog[i] = "Server started" =>
            /\ serviceLog[j] = "Server started" => i = j
            /\ serviceLog[j] = "ERROR" => i < j)
  /\ [](Accepted # {} => Logged("Server started"))
  /\ [][srvPC = "startServer" /\ srvPC' # srvPC =>
          /\ srvPC' = "listen"
          /\ serviceLog' = Append(serviceLog, "Server started")]_vars

\* The bind failed and the process left through log.Fatal: "Server started"
\* is in the log and no connection was ever accepted.
C18_Witness ==
  /\ exitCode = 1 /\ srvPC = "bindError"
  /\ serviceLog = << "Server started", "ERROR" >>
  /\ Accepted = {}

====
